---- MODULE Spec2Model ----
(***************************************************************************)
(* A model of the TaskManager class of task-manager.ts: an in-memory store *)
(* of projects, each holding an "active" and a "completed" list of tasks.  *)
(*                                                                         *)
(* Strings that the code only stores and compares for equality (project    *)
(* names, titles, priorities) are TLA+ strings.  Task identifiers are      *)
(* built and ordered character by character, so they are sequences of      *)
(* characters: a base-36 digit is its value 0..35, and "-" is Hyphen.      *)
(* An optional value (dueDate?: Date) is a sequence of length 0 or 1.      *)
(* Times are integers (milliseconds), on a scale where a day is MsPerDay.  *)
(***************************************************************************)
EXTENDS Integers, Sequences, FiniteSets, TLC

VARIABLES
    projects,   \* this.projects: the Map, as the sequence of its entries in insertion order
    now,        \* the system clock read by Date.now() and new Date()
    call,       \* the last public method called, with its arguments
    ret         \* what that call returned

vars == <<projects, now, call, ret>>

-----------------------------------------------------------------------------
(* Bounds of the model *)

MaxTasks == 2       \* addTask is called at most this many times
MaxTicks == 1       \* the clock advances at most this many milliseconds
StartClock == 35    \* the clock when the store is constructed
MsPerDay == 2       \* length of a calendar day on the model's time scale

ProjectNames == {"A", "B"}
Titles == {"t"}
Priorities == {"low", "medium", "high"}
NoDate == <<>>
DueDates == {NoDate, <<StartClock - 2>>, <<StartClock - 1>>}
Clock == StartClock .. (StartClock + MaxTicks)

\* the texts Math.random().toString(36).slice(2, 8) can give: up to six base-36 digits
RandSuffixes == {<<7>>, <<2, 9>>}

Hyphen == 0 - 1

-----------------------------------------------------------------------------
(* helpers.ts *)

priorityRank(p) ==
    CASE p = "high" -> 3
      [] p = "medium" -> 2
      [] p = "low" -> 1

\* new Date(now.getFullYear(), now.getMonth(), now.getDate()): the time of day zeroed
startOfToday(t) == t - (t % MsPerDay)

-----------------------------------------------------------------------------
(* Library functions the code calls *)

\* Number.prototype.toString(36) of a non-negative integer
RECURSIVE toString36(_)
toString36(n) ==
    IF n < 36 THEN <<n>> ELSE toString36(n \div 36) \o <<n % 36>>

\* String.prototype.localeCompare on texts of "-", digits and lower-case letters:
\* the first differing character decides ("-" < digits < letters), a proper
\* prefix comes first.  Negative, zero or positive.
RECURSIVE localeCompare(_, _)
localeCompare(a, b) ==
    IF a = <<>> /\ b = <<>> THEN 0
    ELSE IF a = <<>> THEN 0 - 1
    ELSE IF b = <<>> THEN 1
    ELSE IF Head(a) # Head(b) THEN Head(a) - Head(b)
    ELSE localeCompare(Tail(a), Tail(b))

\* Array.prototype.findIndex((t) => t.id === taskId), 1-based; 0 when nothing
\* matches (the code's -1)
findIndex(s, taskId) ==
    IF \E i \in 1..Len(s) : s[i].id = taskId
    THEN CHOOSE i \in 1..Len(s) :
             s[i].id = taskId /\ \A j \in 1..(i - 1) : s[j].id # taskId
    ELSE 0

\* splice that takes out the element after the one found
splice_OffByOne(s, idx) == SubSeq(s, 1, idx) \o SubSeq(s, idx + 2, Len(s))

\* Array.prototype.splice(idx, 1): the array without its idx-th element
splice(s, idx) == SubSeq(s, 1, idx - 1) \o SubSeq(s, idx + 1, Len(s))

-----------------------------------------------------------------------------
(* The Map this.projects *)

Has(m, name) == \E i \in 1..Len(m) : m[i].name = name
IndexOf(m, name) == CHOOSE i \in 1..Len(m) : m[i].name = name
Get(m, name) == m[IndexOf(m, name)].statuses
Set(m, name, statuses) ==
    IF Has(m, name)
    THEN [m EXCEPT ![IndexOf(m, name)].statuses = statuses]
    ELSE Append(m, [name |-> name, statuses |-> statuses])

\* getProject without its test for an existing entry
getProject_AlwaysNew(m, name) == Set(m, name, [active |-> <<>>, completed |-> <<>>])

\* private getProject(name): the Map after the call (the entry created when missing)
getProject(m, name) ==
    IF Has(m, name) THEN m ELSE Set(m, name, [active |-> <<>>, completed |-> <<>>])

\* private generateId(), for the clock value t and the random text rand
generateId(t, rand) == toString36(t) \o <<Hyphen>> \o rand

-----------------------------------------------------------------------------
(* The queries, as functions of the Map *)

\* getTasks that lists the completed tasks first when no filter is given
getTasks_CompletedFirst(m, projectName, completed) ==
    IF ~Has(m, projectName) THEN <<>>
    ELSE LET project == Get(m, projectName) IN
         IF completed = "true" THEN project.completed
         ELSE IF completed = "false" THEN project.active
         ELSE project.completed \o project.active

getTasks(m, projectName, completed) ==
    IF ~Has(m, projectName) THEN <<>>
    ELSE LET project == Get(m, projectName) IN
         IF completed = "true" THEN project.completed
         ELSE IF completed = "false" THEN project.active
         ELSE project.active \o project.completed

\* getProjectStats that tallies the priorities of the active tasks only
getProjectStats_ActiveOnly(m, projectName) ==
    IF ~Has(m, projectName)
    THEN [total |-> 0, completed |-> 0,
          byPriority |-> [high |-> 0, medium |-> 0, low |-> 0]]
    ELSE LET project == Get(m, projectName)
             all == project.active \o project.completed
             count(p) == Cardinality({i \in 1..Len(project.active) :
                                         project.active[i].priority = p})
         IN [total |-> Len(all),
             completed |-> Len(project.completed),
             byPriority |-> [high |-> count("high"), medium |-> count("medium"),
                             low |-> count("low")]]

getProjectStats(m, projectName) ==
    IF ~Has(m, projectName)
    THEN [total |-> 0, completed |-> 0,
          byPriority |-> [high |-> 0, medium |-> 0, low |-> 0]]
    ELSE LET project == Get(m, projectName)
             all == project.active \o project.completed
             count(p) == Cardinality({i \in 1..Len(all) : all[i].priority = p})
         IN [total |-> Len(all),
             completed |-> Len(project.completed),
             byPriority |-> [high |-> count("high"), medium |-> count("medium"),
                             low |-> count("low")]]

\* { ...t, project }
Annotate(t, project) ==
    [id |-> t.id, title |-> t.title, completed |-> t.completed,
     priority |-> t.priority, dueDate |-> t.dueDate, project |-> project]

AnnotateAll(s, project) == [i \in 1..Len(s) |-> Annotate(s[i], project)]

RECURSIVE Flatten(_, _)
Flatten(m, withCompleted) ==
    IF m = <<>> THEN <<>>
    ELSE AnnotateAll(Head(m).statuses.active, Head(m).name)
         \o (IF withCompleted
             THEN AnnotateAll(Head(m).statuses.completed, Head(m).name)
             ELSE <<>>)
         \o Flatten(Tail(m), withCompleted)

\* the comparator that puts earlier due dates first, tasks without one last,
\* before it compares the identifiers
comparePriority_DueFirst(a, b) ==
    LET byPriority == priorityRank(b.priority) - priorityRank(a.priority)
        Infinity == StartClock + MaxTicks + 1
        aDue == IF a.dueDate # NoDate THEN a.dueDate[1] ELSE Infinity
        bDue == IF b.dueDate # NoDate THEN b.dueDate[1] ELSE Infinity
    IN IF byPriority # 0 THEN byPriority
       ELSE IF aDue # bDue THEN aDue - bDue
       ELSE localeCompare(a.id, b.id)

comparePriority(a, b) ==
    LET byPriority == priorityRank(b.priority) - priorityRank(a.priority) IN
    IF byPriority # 0 THEN byPriority ELSE localeCompare(a.id, b.id)

\* the test with <= for <
isOverdue_Inclusive(t, clock) ==
    t.dueDate # NoDate /\ t.dueDate[1] <= startOfToday(clock)

isOverdue(t, clock) ==
    t.dueDate # NoDate /\ t.dueDate[1] < startOfToday(clock)

dueTime(t) == IF t.dueDate # NoDate THEN t.dueDate[1] ELSE 0

compareDue(a, b) == dueTime(a) - dueTime(b)

\* the arrow function passed to sort, by name
Compare(cmp, a, b) ==
    IF cmp = "byPriority" THEN comparePriority(a, b) ELSE compareDue(a, b)

\* Array.prototype.sort(cmp): a stable sort.  Each element in turn is put
\* right after the last element of the sorted prefix that cmp does not place
\* after it.
InsertSorted(sorted, x, cmp) ==
    LET notAfter == {i \in 1..Len(sorted) : Compare(cmp, sorted[i], x) <= 0}
        k == IF notAfter = {} THEN 0
             ELSE CHOOSE i \in notAfter : \A j \in notAfter : j <= i
    IN SubSeq(sorted, 1, k) \o <<x>> \o SubSeq(sorted, k + 1, Len(sorted))

sort(s, cmp) ==
    LET sorted[n \in 0..Len(s)] ==
            IF n = 0 THEN <<>> ELSE InsertSorted(sorted[n - 1], s[n], cmp)
    IN sorted[Len(s)]

getAllTasksByPriority(m) == sort(Flatten(m, TRUE), "byPriority")

\* the active tasks of s that are overdue
Overdue(s, clock) ==
    LET keep[n \in 0..Len(s)] ==
            IF n = 0 THEN <<>>
            ELSE IF isOverdue(s[n], clock) THEN Append(keep[n - 1], s[n])
            ELSE keep[n - 1]
    IN keep[Len(s)]

getOverdueTasks(m, clock) == sort(Overdue(Flatten(m, FALSE), clock), "byDue")

-----------------------------------------------------------------------------
(* The state machine *)

RECURSIVE TotalTasks(_)
TotalTasks(m) ==
    IF m = <<>> THEN 0
    ELSE Len(Head(m).statuses.active) + Len(Head(m).statuses.completed)
         + TotalTasks(Tail(m))

\* the task data the callers pass: every priority and every flag, and every due
\* date with the priority "high"
NewTasks ==
    {t \in [title : Titles, completed : BOOLEAN, priority : Priorities, dueDate : DueDates] :
        t.priority = "high" \/ t.dueDate = NoDate}

Ids == {generateId(t, r) : t \in Clock, r \in RandSuffixes}

Filters == {"true", "false", "undefined"}

Init ==
    /\ projects = <<>>
    /\ now = StartClock
    /\ call = [op |-> "new"]
    /\ ret = <<>>

Tick ==
    /\ now < StartClock + MaxTicks
    /\ now' = now + 1
    /\ UNCHANGED <<projects, call, ret>>

\* addTask that pushes every task on the active bucket
AddTask_AlwaysActive(projectName, task, rand) ==
    /\ TotalTasks(projects) < MaxTasks
    /\ LET id == generateId(now, rand)
           m == getProject(projects, projectName)
           project == Get(m, projectName)
           fullTask == [id |-> id, title |-> task.title, completed |-> task.completed,
                        priority |-> task.priority, dueDate |-> task.dueDate]
       IN /\ projects' = Set(m, projectName,
                              [project EXCEPT !.active = Append(@, fullTask)])
          /\ ret' = id
    /\ call' = [op |-> "addTask", projectName |-> projectName, task |-> task]
    /\ UNCHANGED now

AddTask(projectName, task, rand) ==
    /\ TotalTasks(projects) < MaxTasks
    /\ LET id == generateId(now, rand)
           m == getProject(projects, projectName)
           project == Get(m, projectName)
           fullTask == [id |-> id, title |-> task.title, completed |-> task.completed,
                        priority |-> task.priority, dueDate |-> task.dueDate]
       IN /\ projects' =
                 IF fullTask.completed
                 THEN Set(m, projectName,
                          [project EXCEPT !.completed = Append(@, fullTask)])
                 ELSE Set(m, projectName,
                          [project EXCEPT !.active = Append(@, fullTask)])
          /\ ret' = id
    /\ call' = [op |-> "addTask", projectName |-> projectName, task |-> task]
    /\ UNCHANGED now

\* completeTask that looks the project up with getProject
CompleteTask_Creates(projectName, taskId) ==
    /\ call' = [op |-> "completeTask", projectName |-> projectName, taskId |-> taskId]
    /\ UNCHANGED now
    /\ LET m == getProject(projects, projectName)
           project == Get(m, projectName)
           idx == findIndex(project.active, taskId)
       IN IF idx = 0
          THEN ret' = FALSE /\ projects' = m
          ELSE LET task == project.active[idx]
                   completedTask == [task EXCEPT !.completed = TRUE]
               IN /\ projects' = Set(m, projectName,
                         [active |-> splice(project.active, idx),
                          completed |-> Append(project.completed, completedTask)])
                  /\ ret' = TRUE

CompleteTask(projectName, taskId) ==
    /\ call' = [op |-> "completeTask", projectName |-> projectName, taskId |-> taskId]
    /\ UNCHANGED now
    /\ IF ~Has(projects, projectName)
       THEN ret' = FALSE /\ UNCHANGED projects
       ELSE LET project == Get(projects, projectName)
                idx == findIndex(project.active, taskId)
            IN IF idx = 0
               THEN ret' = FALSE /\ UNCHANGED projects
               ELSE LET task == project.active[idx]
                        completedTask == [task EXCEPT !.completed = TRUE]
                    IN /\ projects' = Set(projects, projectName,
                              [active |-> splice(project.active, idx),
                               completed |-> Append(project.completed, completedTask)])
                       /\ ret' = TRUE

GetTasks(projectName, completed) ==
    /\ call' = [op |-> "getTasks", projectName |-> projectName, completed |-> completed]
    /\ ret' = getTasks(projects, projectName, completed)
    /\ UNCHANGED <<projects, now>>

GetProjectStats(projectName) ==
    /\ call' = [op |-> "getProjectStats", projectName |-> projectName]
    /\ ret' = getProjectStats(projects, projectName)
    /\ UNCHANGED <<projects, now>>

GetAllTasksByPriority ==
    /\ call' = [op |-> "getAllTasksByPriority"]
    /\ ret' = getAllTasksByPriority(projects)
    /\ UNCHANGED <<projects, now>>

GetOverdueTasks ==
    /\ call' = [op |-> "getOverdueTasks"]
    /\ ret' = getOverdueTasks(projects, now)
    /\ UNCHANGED <<projects, now>>

DoAddTask == \E p \in ProjectNames, t \in NewTasks, r \in RandSuffixes : AddTask(p, t, r)
DoCompleteTask == \E p \in ProjectNames, id \in Ids : CompleteTask(p, id)
DoGetTasks == \E p \in ProjectNames, f \in Filters : GetTasks(p, f)
DoGetProjectStats == \E p \in ProjectNames : GetProjectStats(p)

Next ==
    \/ Tick
    \/ DoAddTask
    \/ DoCompleteTask
    \/ DoGetTasks
    \/ DoGetProjectStats
    \/ GetAllTasksByPriority
    \/ GetOverdueTasks

Spec == Init /\ [][Next]_vars

-----------------------------------------------------------------------------
(* Vocabulary of the properties *)

Known(m) == {m[i].name : i \in 1..Len(m)}
Range(s) == {s[i] : i \in 1..Len(s)}
Occurrences(s, x) == Cardinality({i \in 1..Len(s) : s[i] = x})
Last(s) == s[Len(s)]

\* the buckets of a project, empty when the Map has no entry for it
Active(m, name) == IF Has(m, name) THEN Get(m, name).active ELSE <<>>
Completed(m, name) == IF Has(m, name) THEN Get(m, name).completed ELSE <<>>

\* every task of the store, with its project
Stored(m) == Flatten(m, TRUE)

\* a step taken by a call of a public method (the clock stands still during it)
CallStep == now' = now

-----------------------------------------------------------------------------
(* C1 *)

\* C1: when completeTask(projectName, taskId) returns true, an immediately
\* following completeTask with the same arguments returns false.
C1_CompleteTaskOnce ==
    [][(/\ call.op = "completeTask"
        /\ ret = TRUE
        /\ CallStep
        /\ call' = call) => ret' = FALSE]_vars

-----------------------------------------------------------------------------
(* C2 *)

UniqueIds ==
    \A i, j \in 1..Len(Stored(projects)) :
        i # j => Stored(projects)[i].id # Stored(projects)[j].id

\* every stored task is still stored, under the same identifier and in the
\* same project, after the step (completeTask changes only its flag)
IdsKept ==
    \A name \in ProjectNames, id \in Ids :
        LET before == SelectSeq(Active(projects, name) \o Completed(projects, name),
                                LAMBDA t : t.id = id)
            after == SelectSeq(Active(projects', name) \o Completed(projects', name),
                               LAMBDA t : t.id = id)
        IN Len(before) <= Len(after)

\* C2: no two task records of the store carry the same identifier, and a task
\* keeps its identifier through every later operation.
C2_UniqueStableIds == [](UniqueIds) /\ [][IdsKept]_vars

-----------------------------------------------------------------------------
(* C3 *)

\* the task addTask has just built: the returned identifier with the caller's data
AddedTask ==
    [id |-> ret, title |-> call.task.title, completed |-> call.task.completed,
     priority |-> call.task.priority, dueDate |-> call.task.dueDate]

\* C3: right after addTask(project, task) the project exists; a task added with
\* flag false is in getTasks(project, false) and not in getTasks(project, true),
\* a task added with flag true is in getTasks(project, true) and not in
\* getTasks(project, false); the returned identifier is the stored task's.
C3_AddTaskPlacement ==
    call.op = "addTask" =>
        LET name == call.projectName
            act == getTasks(projects, name, "false")
            done == getTasks(projects, name, "true")
        IN /\ name \in Known(projects)
           /\ ret \in Ids
           /\ IF call.task.completed
              THEN AddedTask \in Range(done) /\ AddedTask \notin Range(act)
              ELSE AddedTask \in Range(act) /\ AddedTask \notin Range(done)
           /\ IF call.task.completed
              THEN Last(done).id = ret
              ELSE Last(act).id = ret

\* addTask with flag false on a project whose completed bucket already holds a
\* task with the identifier addTask returns
C3_Witness ==
    /\ call.op = "addTask"
    /\ ~call.task.completed
    /\ \E t \in Range(Completed(projects, call.projectName)) : t.id = ret

-----------------------------------------------------------------------------
(* C7 *)

\* C7: for every project name, getProjectStats(project).total is
\* getTasks(project).length and the sum of the three priority counts, and
\* getProjectStats(project).completed is getTasks(project, true).length.
C7_StatsAgree ==
    \A name \in ProjectNames :
        LET stats == getProjectStats(projects, name) IN
        /\ stats.total = Len(getTasks(projects, name, "undefined"))
        /\ stats.total = stats.byPriority.high + stats.byPriority.medium
                         + stats.byPriority.low
        /\ stats.completed = Len(getTasks(projects, name, "true"))

\* a getProjectStats call on a project with an active and a completed task of
\* different priorities
C7_Witness ==
    /\ call.op = "getProjectStats"
    /\ ret.total = 2
    /\ ret.completed = 1
    /\ ret.byPriority.high = 1
    /\ ret.byPriority.low = 1

-----------------------------------------------------------------------------
(* C4 *)

RemoveAt(s, i) == SubSeq(s, 1, i - 1) \o SubSeq(s, i + 1, Len(s))

-----------------------------------------------------------------------------
(* C5 *)

ZeroStats ==
    [total |-> 0, completed |-> 0, byPriority |-> [high |-> 0, medium |-> 0, low |-> 0]]

\* C5: for a project name the store does not hold, getTasks returns the empty
\* sequence for every filter, getProjectStats returns all zeros and completeTask
\* returns false; completeTask on a known project with an identifier that is
\* not in its active bucket returns false; none of these calls changes the
\* store or creates a project.
C5_UnknownIsNeutral ==
    [][CallStep =>
        /\ (call'.op = "getTasks" /\ call'.projectName \notin Known(projects))
              => (ret' = <<>> /\ projects' = projects)
        /\ (call'.op = "getProjectStats" /\ call'.projectName \notin Known(projects))
              => (ret' = ZeroStats /\ projects' = projects)
        /\ (/\ call'.op = "completeTask"
            /\ \A t \in Range(Active(projects, call'.projectName)) :
                  t.id # call'.taskId)
              => (ret' = FALSE /\ projects' = projects)]_vars

\* completeTask on an unknown project with the identifier of a task that is
\* active in another project
C5_Witness ==
    /\ call.op = "completeTask"
    /\ ret = FALSE
    /\ call.projectName \notin Known(projects)
    /\ \E name \in Known(projects) :
          \E t \in Range(Active(projects, name)) : t.id = call.taskId

-----------------------------------------------------------------------------
(* C6 *)

\* C6: in every step and for every project, the completed bucket keeps the
\* tasks it has, in place and with flag true; a task leaves the active bucket
\* only in a completeTask call on that project that returns true; and the
\* number of tasks of the project never decreases.
C6_OneWayNoLoss ==
    [][\A name \in ProjectNames :
        LET a == Active(projects, name)
            c == Completed(projects, name)
            a2 == Active(projects', name)
            c2 == Completed(projects', name)
        IN /\ name \in Known(projects) => name \in Known(projects')
           /\ Len(c) <= Len(c2)
           /\ SubSeq(c2, 1, Len(c)) = c
           /\ \A t \in Range(c2) : t.completed = TRUE
           /\ Len(a) + Len(c) <= Len(a2) + Len(c2)
           /\ (\E t \in Range(a) : Occurrences(a2, t) < Occurrences(a, t))
                 => /\ CallStep
                    /\ call'.op = "completeTask"
                    /\ call'.projectName = name
                    /\ ret' = TRUE
                    /\ Len(c2) = Len(c) + 1]_vars

\* a task was completed by completeTask while another one stayed active
C6_Witness ==
    /\ call.op = "completeTask"
    /\ ret = TRUE
    /\ Active(projects, call.projectName) # <<>>
    /\ Last(Completed(projects, call.projectName)).id = call.taskId

-----------------------------------------------------------------------------
(* C8 *)

PriorityOrder == <<"high", "medium", "low">>
Position(p) == CHOOSE i \in 1..Len(PriorityOrder) : PriorityOrder[i] = p

\* a comes before b, or equals it, in lexicographic order of the characters
LexLeq(a, b) ==
    \E k \in 0..Len(a) :
        /\ k <= Len(b)
        /\ \A i \in 1..k : a[i] = b[i]
        /\ \/ k = Len(a)
           \/ k < Len(b) /\ a[k + 1] < b[k + 1]

-----------------------------------------------------------------------------
(* C9 *)

\* the start of the calendar day the clock is in
DayStart == (now \div MsPerDay) * MsPerDay

\* C9: getOverdueTasks returns exactly the active tasks, of all projects, whose
\* due date is strictly before the start of the current day, each with its
\* project, by ascending due date; it holds no task without a due date, no
\* task due on or after the start of the day and no task of a completed
\* bucket, so a task is no longer reported once completeTask has moved it.
C9_OverdueExact ==
    LET r == getOverdueTasks(projects, now) IN
    /\ \A x \in Range(r) :
          /\ x.project \in Known(projects)
          /\ x.dueDate # NoDate
          /\ x.dueDate[1] < DayStart
          /\ x.completed = FALSE
    /\ \A name \in Known(projects) :
          LET a == Active(projects, name)
              note(t) == [id |-> t.id, title |-> t.title, completed |-> t.completed,
                          priority |-> t.priority, dueDate |-> t.dueDate,
                          project |-> name]
          IN /\ \A t \in Range(a) :
                    Occurrences(r, note(t)) =
                        IF t.dueDate # NoDate /\ t.dueDate[1] < DayStart
                        THEN Occurrences(a, t) ELSE 0
             /\ \A t \in Range(Completed(projects, name)) : note(t) \notin Range(r)
             /\ Cardinality({k \in 1..Len(r) : r[k].project = name})
                    = Cardinality({k \in 1..Len(a) :
                          a[k].dueDate # NoDate /\ a[k].dueDate[1] < DayStart})
    /\ \A i, j \in 1..Len(r) : i < j => r[i].dueDate[1] <= r[j].dueDate[1]

\* completeTask has just moved an overdue task while another overdue task is
\* still active and reported
C9_Witness ==
    /\ call.op = "completeTask"
    /\ ret = TRUE
    /\ LET t == Last(Completed(projects, call.projectName)) IN
          t.dueDate # NoDate /\ t.dueDate[1] < DayStart
    /\ Len(getOverdueTasks(projects, now)) = 1

-----------------------------------------------------------------------------
(* C10 *)

\* C10: getTasks(project, true) is the completed bucket, getTasks(project,
\* false) the active bucket and getTasks(project) the active tasks followed by
\* the completed ones; a call changes a bucket only by appending one task at
\* its end (addTask, completeTask) or by taking one task out of active
\* (completeTask), so each bucket lists its tasks in the order they entered it
\* and a task completed by completeTask comes last in getTasks(project).
C10_GetTasksOrder ==
    [][\A name \in ProjectNames :
        LET a == Active(projects, name)
            c == Completed(projects, name)
            a2 == getTasks(projects', name, "false")
            c2 == getTasks(projects', name, "true")
            all2 == getTasks(projects', name, "undefined")
        IN /\ a2 = Active(projects', name)
           /\ c2 = Completed(projects', name)
           /\ all2 = a2 \o c2
           /\ \/ a2 = a /\ c2 = c
              \/ /\ call'.op = "addTask"
                 /\ ~call'.task.completed
                 /\ Len(a2) = Len(a) + 1 /\ SubSeq(a2, 1, Len(a)) = a /\ c2 = c
                 /\ Last(a2).id = ret'
              \/ /\ call'.op = "addTask"
                 /\ call'.task.completed
                 /\ Len(c2) = Len(c) + 1 /\ SubSeq(c2, 1, Len(c)) = c /\ a2 = a
                 /\ Last(c2).id = ret'
              \/ /\ call'.op = "completeTask"
                 /\ \E idx \in 1..Len(a) : a2 = RemoveAt(a, idx)
                 /\ Len(c2) = Len(c) + 1 /\ SubSeq(c2, 1, Len(c)) = c
                 /\ Last(all2).id = call'.taskId
                 /\ Last(all2).completed]_vars

\* getTasks(project) returned an active task followed by a completed one
C10_Witness ==
    /\ call.op = "getTasks"
    /\ call.completed = "undefined"
    /\ Len(ret) = 2
    /\ ~ret[1].completed
    /\ ret[2].completed
    /\ ret = Active(projects, call.projectName) \o Completed(projects, call.projectName)

====
